---- MODULE Spec2Model ----
(***************************************************************************)
(* Mesh-tensor helpers of tilelang/language/annotate_mesh_tensor.py:       *)
(* the closure state of mesh_tensor_functions (_mesh_shape and             *)
(* _mesh_tensor_info) and its three operations annotate_mesh_tensor_info,  *)
(* get_tile_shape and mesh_tensor_copy, together with the caller-owned     *)
(* dicts that annotate_mesh_tensor_info deep-copies.                       *)
(***************************************************************************)
EXTENDS Integers, Sequences, FiniteSets, TLC

\* ------------------------------------------------------------------ bounds
MaxDim == 4       \* largest extent of an enumerated global shape dimension
MaxCount == 3     \* largest device count of an enumerated mesh axis
MaxCoord == 1     \* largest block index of an enumerated block coordinate
MaxEntries == 2   \* most entries of an enumerated caller mapping

\* ------------------------------------------------------- buffers and heap
\* Three tir.Buffer objects; A2 is a second view over A's storage.
Handles == {"A", "A2", "B"}
Data == {"d1", "d2"}

\* buffer.data: the storage identity the registry is keyed by.
data(h) == IF h = "B" THEN "d2" ELSE "d1"

\* The dict objects the caller owns, and which of them it uses for a handle.
CallerInfoAddrs == {"I1", "I2"}
CallerShardAddrs == {"S1", "S2"}
InfoOf(h) == IF h = "A" THEN "I1" ELSE "I2"
ShardOf(a) == IF a = "I1" THEN "S1" ELSE "S2"

\* The objects deepcopy allocates for the entry stored under storage d.
RegInfoAddr(d) == IF d = "d1" THEN "R1" ELSE "R2"
RegShardAddr(d) == IF d = "d1" THEN "RS1" ELSE "RS2"
InfoAddrs == CallerInfoAddrs \cup {RegInfoAddr(d) : d \in Data}
ShardAddrs == CallerShardAddrs \cup {RegShardAddr(d) : d \in Data}

Keys == {"block_shape", "program_id", "sharding"}

\* An info object: a dict (its keys, and the values under them) or some
\* other value.  The value under a key that is absent is kept at a default.
NotDict ==
  [isdict |-> FALSE, keys |-> {}, block_shape |-> <<>>, program_id |-> 0,
   sharding |-> "none"]
InfoDict(ks, bs, s) ==
  [isdict |-> TRUE, keys |-> ks,
   block_shape |-> IF "block_shape" \in ks THEN bs ELSE <<>>,
   program_id |-> 0,
   sharding |-> IF "sharding" \in ks THEN s ELSE "none"]
NoShard == [x |-> 0, y |-> 0]

\* An optional argument (None or a tuple).
None == [some |-> FALSE, val |-> <<>>]
Some(t) == [some |-> TRUE, val |-> t]

\* A device count as the caller supplies it: an integer or something else.
IntV(n) == [isint |-> TRUE, n |-> n]
NonInt == [isint |-> FALSE, n |-> 0]
NoMesh == [isdict |-> FALSE, keys |-> {}, x |-> IntV(0), y |-> IntV(0)]

\* ------------------------------------------------------------------ state
VARIABLES
  ctx,                \* "new" before mesh_tensor_functions, then "ready" or "failed"
  _mesh_shape,        \* the closure's _mesh_shape
  _mesh_tensor_info,  \* the closure's registry: storage identity -> info object
  infos,              \* heap of info objects (caller-owned and registry-owned)
  shards,             \* heap of sharding dicts (caller-owned and registry-owned)
  mapping,            \* the caller's mapping: its handles in insertion order
  ann,                \* the latest annotate call: its outcome and its input by value
  last                \* the latest call of any operation and what it did

vars == <<ctx, _mesh_shape, _mesh_tensor_info, infos, shards, mapping, ann, last>>

\* The value of the info object at address a, nested sharding dict included
\* (what Python's == on the dicts compares).
Value(a, I, S) ==
  [isdict |-> I[a].isdict, keys |-> I[a].keys,
   block_shape |-> I[a].block_shape, program_id |-> I[a].program_id,
   sharding |-> IF I[a].sharding \in ShardAddrs THEN S[I[a].sharding] ELSE NoShard]

\* What a lookup of storage d in the registry yields, by value.
RegValue(d) == Value(_mesh_tensor_info[d], infos, shards)

\* The caller's mapping by value: <<handle, info value>> in iteration order.
Snapshot(m, I, S) == [i \in 1..Len(m) |-> [h |-> m[i], v |-> Value(InfoOf(m[i]), I, S)]]

\* ------------------------------------------------- the record of a call
NoView == [buf |-> "", sliced |-> FALSE, offset |-> <<>>]
NoCall ==
  [op |-> "none", outcome |-> "none", exc |-> "", msg |-> "", named |-> "",
   cfg |-> NoMesh,
   buffer |-> "", shape |-> <<>>, result |-> <<>>,
   src |-> "", dst |-> "", src_coord |-> None, dst_coord |-> None,
   lookups |-> {}, copy_called |-> FALSE, copy_src |-> NoView, copy_dst |-> NoView]

\* ------------------------------------------------ mesh_tensor_functions
\* Lines 29-32: the configuration is accepted when it is a dict holding the
\* keys "x" and "y"; _mesh_shape is then a copy of it.
mesh_shape_ok(cfg) == cfg.isdict /\ "x" \in cfg.keys /\ "y" \in cfg.keys

mesh_tensor_functions(cfg) ==
  /\ ctx = "new"
  /\ IF mesh_shape_ok(cfg)
       THEN /\ ctx' = "ready"
            /\ _mesh_shape' = cfg
            /\ last' = [NoCall EXCEPT !.op = "mesh_tensor_functions",
                                      !.outcome = "ok", !.cfg = cfg]
       ELSE /\ ctx' = "failed"
            /\ _mesh_shape' = _mesh_shape
            /\ last' = [NoCall EXCEPT !.op = "mesh_tensor_functions",
                                      !.outcome = "raise", !.exc = "ValueError",
                                      !.msg = "mesh_shape must be a dict",
                                      !.cfg = cfg]
  /\ UNCHANGED <<_mesh_tensor_info, infos, shards, mapping, ann>>

\* --------------------------------------------- annotate_mesh_tensor_info
\* Lines 46-51 without the test for "program_id".
info_valid_no_program_id(o) ==
  /\ o.isdict
  /\ "block_shape" \in o.keys
  /\ "sharding" \in o.keys

\* Lines 46-51: the validation of one info.
info_valid(o) ==
  /\ o.isdict
  /\ "block_shape" \in o.keys
  /\ "program_id" \in o.keys
  /\ "sharding" \in o.keys

\* Line 55 with a shallow copy: the nested sharding dict stays shared.
store_shallow(st, d, a) ==
  [st EXCEPT !.reg = (d :> RegInfoAddr(d)) @@ st.reg,
             !.I = [st.I EXCEPT ![RegInfoAddr(d)] = st.I[a]]]

\* Line 55: _mesh_tensor_info[buffer.data] = deepcopy(info).  The copy is a
\* new info object with a new sharding dict of its own.
store_deepcopy(st, d, a) ==
  [st EXCEPT
     !.reg = (d :> RegInfoAddr(d)) @@ st.reg,
     !.I = [st.I EXCEPT ![RegInfoAddr(d)] =
              [st.I[a] EXCEPT !.sharding =
                 IF st.I[a].sharding \in ShardAddrs THEN RegShardAddr(d) ELSE "none"]],
     !.S = IF st.I[a].sharding \in ShardAddrs
             THEN [st.S EXCEPT ![RegShardAddr(d)] = st.S[st.I[a].sharding]]
             ELSE st.S]

\* Lines 44-55: the loop over the mapping's items from position i on; it
\* stops at the first invalid info, leaving what it has stored so far.
RECURSIVE annotate_loop(_, _, _)
annotate_loop(m, i, st) ==
  IF i > Len(m) THEN st
  ELSE IF ~info_valid(st.I[InfoOf(m[i])])
    THEN [st EXCEPT !.raised = TRUE, !.at = i]
    ELSE annotate_loop(m, i + 1, store_deepcopy(st, data(m[i]), InfoOf(m[i])))

\* Line 43 left out: the loop adds to the registry as it stands.
annotate_start_keep(I, S) ==
  [reg |-> _mesh_tensor_info, I |-> I, S |-> S, raised |-> FALSE, at |-> 0]

\* Line 43: the registry is rebound to a new empty dict before the loop; the
\* objects of the old one are released.
annotate_start(I, S) ==
  [reg |-> <<>>,
   I |-> [a \in InfoAddrs |-> IF a \in CallerInfoAddrs THEN I[a] ELSE NotDict],
   S |-> [a \in ShardAddrs |-> IF a \in CallerShardAddrs THEN S[a] ELSE NoShard],
   raised |-> FALSE, at |-> 0]

\* Lines 42-58: the whole call on mapping m over heap (I, S).
annotate_mesh_tensor_info(m, I, S) == annotate_loop(m, 1, annotate_start(I, S))

\* The call's effect on the state, given the heap it runs on.
AnnotateCall(m, I, S) ==
  LET st == annotate_mesh_tensor_info(m, I, S) IN
  /\ _mesh_tensor_info' = st.reg
  /\ infos' = st.I
  /\ shards' = st.S
  /\ mapping' = m
  /\ ann' = [status |-> IF st.raised THEN "raise" ELSE "ok",
             snap |-> Snapshot(m, I, S),
             dropped |-> DOMAIN _mesh_tensor_info \ DOMAIN st.reg]
  /\ last' = IF st.raised
               THEN [NoCall EXCEPT !.op = "annotate_mesh_tensor_info",
                                   !.outcome = "raise", !.exc = "ValueError",
                                   !.msg = "Invalid mesh tensor info",
                                   !.named = m[st.at]]
               ELSE [NoCall EXCEPT !.op = "annotate_mesh_tensor_info",
                                   !.outcome = "ok"]
  /\ UNCHANGED <<ctx, _mesh_shape>>

\* annotate_mesh_tensor_info(mapping) on the caller's mapping as it stands.
Annotate ==
  /\ ctx = "ready"
  /\ AnnotateCall(mapping, infos, shards)

\* The caller builds a mapping of fresh dicts and passes it:
\* annotate_mesh_tensor_info({h: {...}, ...}).
AnnotateLiteral(m, v1, v2, s1, s2) ==
  /\ ctx = "ready"
  /\ AnnotateCall(m,
       [infos EXCEPT !["I1"] = v1, !["I2"] = v2],
       [shards EXCEPT !["S1"] = s1, !["S2"] = s2])

\* --------------------------------------------------------- get_tile_shape
\* T.ceildiv(a, b) on integers: floor((a + b - 1) / b).  It fails on a zero
\* divisor and on a divisor that is no integer.
ceildiv_ok(b) == b.isint /\ b.n # 0
ceildiv(a, b) == (a + b.n - 1) \div b.n

\* Python list indexing: a negative index counts from the end.
py_index(i, n) == IF i < 0 THEN i + n ELSE i
index_ok(i, n) == py_index(i, n) >= 0 /\ py_index(i, n) < n

\* Lines 80-81 with floor division in place of T.ceildiv.
tile_step_floor(t, d, n) ==
  IF t.raised THEN t
  ELSE IF ~index_ok(d, Len(t.shape)) THEN [t EXCEPT !.raised = TRUE, !.exc = "IndexError"]
  ELSE IF ~ceildiv_ok(n) THEN [t EXCEPT !.raised = TRUE, !.exc = "TVMError"]
  ELSE [t EXCEPT !.shape[py_index(d, Len(t.shape)) + 1] = @ \div n.n]

\* Line 80 (and 81): tile_shape[d] = T.ceildiv(tile_shape[d], n), on the
\* list as the steps before left it.
tile_step(t, d, n) ==
  IF t.raised THEN t
  ELSE IF ~index_ok(d, Len(t.shape)) THEN [t EXCEPT !.raised = TRUE, !.exc = "IndexError"]
  ELSE IF ~ceildiv_ok(n) THEN [t EXCEPT !.raised = TRUE, !.exc = "TVMError"]
  ELSE [t EXCEPT !.shape[py_index(d, Len(t.shape)) + 1] = ceildiv(@, n)]

\* Lines 74-82 for a registered buffer: the x step, then the y step.
tile_shape_of(shape, sharding) ==
  tile_step(tile_step([raised |-> FALSE, exc |-> "", shape |-> shape],
                      sharding.x, _mesh_shape.x),
            sharding.y, _mesh_shape.y)

\* Lines 60-82: get_tile_shape(buffer), the buffer being handle h with
\* global shape `shape`.
get_tile_shape(h, shape) ==
  /\ ctx = "ready"
  /\ LET call == [NoCall EXCEPT !.op = "get_tile_shape", !.buffer = h,
                                !.shape = shape, !.lookups = {"buffer"}] IN
     IF data(h) \notin DOMAIN _mesh_tensor_info
       THEN last' = [call EXCEPT !.outcome = "raise", !.exc = "ValueError",
                                 !.msg = "not found", !.named = h]
       ELSE LET t == tile_shape_of(shape, RegValue(data(h)).sharding) IN
            IF t.raised
              THEN last' = [call EXCEPT !.outcome = "raise", !.exc = t.exc]
              ELSE last' = [call EXCEPT !.outcome = "ok", !.result = t.shape]
  /\ UNCHANGED <<ctx, _mesh_shape, _mesh_tensor_info, infos, shards, mapping, ann>>

\* ------------------------------------------------------- mesh_tensor_copy
Min(a, b) == IF a < b THEN a ELSE b

\* Line 104 with a sum in place of the product.
block_offset_sum(coord, block_shape) ==
  [k \in 1..Min(Len(coord), Len(block_shape)) |-> coord[k] + block_shape[k]]

\* Line 104 (and 113): tuple(i * b for i, b in zip(coord, block_shape));
\* zip stops at the shorter of the two.
block_offset(coord, block_shape) ==
  [k \in 1..Min(Len(coord), Len(block_shape)) |-> coord[k] * block_shape[k]]

\* Lines 99-108 with a fallback to the whole tensor in place of the error.
resolve_side_default(h, coord) ==
  IF ~coord.some \/ data(h) \notin DOMAIN _mesh_tensor_info
    THEN [raised |-> FALSE, looked |-> coord.some,
          view |-> [buf |-> h, sliced |-> FALSE, offset |-> <<>>]]
    ELSE [raised |-> FALSE, looked |-> TRUE,
          view |-> [buf |-> h, sliced |-> TRUE,
                    offset |-> block_offset(coord.val,
                                 infos[_mesh_tensor_info[data(h)]].block_shape)]]

\* Lines 99-108 (and 109-117): one side of the copy.  Without a coordinate
\* the buffer is passed on as it is; with one, the registry is read and the
\* buffer is sliced at the block's element offset, a missing entry raising.
resolve_side(h, coord) ==
  IF ~coord.some
    THEN [raised |-> FALSE, looked |-> FALSE,
          view |-> [buf |-> h, sliced |-> FALSE, offset |-> <<>>]]
    ELSE IF data(h) \notin DOMAIN _mesh_tensor_info
      THEN [raised |-> TRUE, looked |-> TRUE, view |-> NoView]
      ELSE [raised |-> FALSE, looked |-> TRUE,
            view |-> [buf |-> h, sliced |-> TRUE,
                      offset |-> block_offset(coord.val,
                                   infos[_mesh_tensor_info[data(h)]].block_shape)]]

\* Lines 84-119: mesh_tensor_copy(src, dst, src_coord=sc, dst_coord=dc).
mesh_tensor_copy(src, dst, sc, dc) ==
  /\ ctx = "ready"
  /\ LET call == [NoCall EXCEPT !.op = "mesh_tensor_copy", !.src = src, !.dst = dst,
                                !.src_coord = sc, !.dst_coord = dc]
         s == resolve_side(src, sc)
         d == resolve_side(dst, dc)
         looked_s == IF s.looked THEN {"src"} ELSE {}
         looked_d == IF d.looked THEN {"dst"} ELSE {}
     IN
     IF s.raised
       THEN last' = [call EXCEPT !.outcome = "raise", !.exc = "ValueError",
                                 !.msg = "not found", !.named = src,
                                 !.lookups = looked_s]
       ELSE IF d.raised
         THEN last' = [call EXCEPT !.outcome = "raise", !.exc = "ValueError",
                                   !.msg = "not found", !.named = dst,
                                   !.lookups = looked_s \cup looked_d]
         ELSE last' = [call EXCEPT !.outcome = "ok", !.lookups = looked_s \cup looked_d,
                                   !.copy_called = TRUE,
                                   !.copy_src = s.view, !.copy_dst = d.view]
  /\ UNCHANGED <<ctx, _mesh_shape, _mesh_tensor_info, infos, shards, mapping, ann>>

\* ------------------------------------------- the caller's own mutations
\* The caller rebinds or rewrites one of its info dicts.
CallerSetInfo(a, v) ==
  /\ ctx = "ready"
  /\ infos[a] # v
  /\ infos' = [infos EXCEPT ![a] = v]
  /\ UNCHANGED <<ctx, _mesh_shape, _mesh_tensor_info, shards, mapping, ann, last>>

\* The caller writes info["sharding"]["x"] = d in one of its sharding dicts.
CallerSetSharding(s, d) ==
  /\ ctx = "ready"
  /\ shards[s].x # d
  /\ shards' = [shards EXCEPT ![s].x = d]
  /\ UNCHANGED <<ctx, _mesh_shape, _mesh_tensor_info, infos, mapping, ann, last>>

\* The caller adds entries to, or removes entries from, its mapping.
CallerSetMapping(m) ==
  /\ ctx = "ready"
  /\ mapping # m
  /\ mapping' = m
  /\ UNCHANGED <<ctx, _mesh_shape, _mesh_tensor_info, infos, shards, ann, last>>

\* ------------------------------------------------------------- the inputs
SeqsUpTo(S, n) == UNION {[1..k -> S] : k \in 0..n}

\* Caller mappings: distinct handles in some insertion order.
Mappings ==
  {m \in SeqsUpTo(Handles, MaxEntries) :
     \A i, j \in 1..Len(m) : i # j => m[i] # m[j]}

FullInfo(bs, s) == InfoDict(Keys, bs, s)
DefaultS1 == [x |-> 0, y |-> 1]
DefaultS2 == [x |-> 1, y |-> 0]
DefaultMesh == [isdict |-> TRUE, keys |-> {"x", "y"}, x |-> IntV(2), y |-> IntV(2)]

\* Mesh configurations: no dict, a dict lacking an axis, and dicts with
\* both axes and counts that are negative, zero, positive or no integer.
CountVals == {IntV(n) : n \in -1..MaxCount} \cup {NonInt}
MeshConfigs ==
  {NoMesh, [isdict |-> TRUE, keys |-> {"x", "y"}, x |-> IntV(3), y |-> IntV(4)]}
  \cup {[isdict |-> TRUE, keys |-> ks, x |-> IntV(2), y |-> IntV(2)] :
          ks \in {{}, {"x"}, {"y"}}}
  \cup {[isdict |-> TRUE, keys |-> {"x", "y"}, x |-> cx, y |-> cy] :
          cx \in CountVals, cy \in CountVals}

\* Global shapes: rank-3 shapes with two extents up to MaxDim, and the
\* rank-2 examples.  Sharding indices may count from the end.
Shapes ==
  {<<a, b, 5>> : a \in 1..MaxDim, b \in 1..MaxDim} \cup {<<128, 256>>, <<100, 256>>}
ShardDims == -1..1

\* Block coordinates of one or two block indices, and the omitted one.
Coords == {<<c>> : c \in 0..MaxCoord} \cup {<<c, c + 1>> : c \in 0..MaxCoord} \cup {<<2, 3>>}
OptCoords == {None} \cup {Some(c) : c \in Coords}

\* Info values for schema checking: every set of keys, and a non-dict.
SchemaInfos(s) == {InfoDict(ks, <<2, 3>>, s) : ks \in SUBSET Keys} \cup {NotDict}

\* ----------------------------------------------------- initial states
InitHeap ==
  /\ infos = [a \in InfoAddrs |->
                IF a = "I1" THEN FullInfo(<<16, 16>>, "S1")
                ELSE IF a = "I2" THEN FullInfo(<<4>>, "S2") ELSE NotDict]
  /\ shards = [a \in ShardAddrs |->
                 IF a = "S1" THEN DefaultS1
                 ELSE IF a = "S2" THEN DefaultS2 ELSE NoShard]
  /\ mapping = <<>>
  /\ _mesh_tensor_info = <<>>
  /\ ann = [status |-> "none", snap |-> <<>>, dropped |-> {}]

\* Before mesh_tensor_functions is called.
InitNew ==
  /\ ctx = "new"
  /\ _mesh_shape = NoMesh
  /\ last = NoCall
  /\ InitHeap

\* Right after mesh_tensor_functions({"x": 2, "y": 2}).
InitReady ==
  /\ ctx = "ready"
  /\ _mesh_shape = DefaultMesh
  /\ last = [NoCall EXCEPT !.op = "mesh_tensor_functions", !.outcome = "ok",
                           !.cfg = DefaultMesh]
  /\ InitHeap

\* ------------------------------------------------------ specifications
\* The registry against a caller that keeps mutating what it passed.
SetInfo ==
  \E a \in CallerInfoAddrs :
    \E v \in {FullInfo(<<16, 16>>, ShardOf(a)), FullInfo(<<4>>, ShardOf(a)), NotDict} :
      CallerSetInfo(a, v)
SetSharding == \E s \in CallerShardAddrs : \E d \in 0..1 : CallerSetSharding(s, d)
SetMapping == \E m \in Mappings : CallerSetMapping(m)
NextReg == SetInfo \/ SetSharding \/ SetMapping \/ Annotate
SpecReg == InitReady /\ [][NextReg]_vars

\* Schema validation: annotate calls on mappings of every kind of info.
AnnotateSchema ==
  \E m \in Mappings :
    \E v1 \in SchemaInfos("S1") :
      \E v2 \in {FullInfo(<<4>>, "S2"), InfoDict(Keys \ {"program_id"}, <<4>>, "S2"), NotDict} :
    AnnotateLiteral(m, v1, v2, DefaultS1, DefaultS2)
NextSchema == AnnotateSchema
SpecSchema == InitReady /\ [][NextSchema]_vars

\* Lookups and block copies between annotate calls.
AnnotateCopy ==
  \E m \in Mappings :
    \E v2 \in {FullInfo(<<4>>, "S2"), InfoDict(Keys \ {"program_id"}, <<4>>, "S2")} :
      AnnotateLiteral(m, FullInfo(<<16, 16>>, "S1"), v2, DefaultS1, DefaultS2)
CopyCall ==
  \E src \in {"A2", "B"} : \E dst \in {"A2", "B"} :
    \E sc \in OptCoords : \E dc \in OptCoords :
      mesh_tensor_copy(src, dst, sc, dc)
TileLookup == \E h \in Handles : get_tile_shape(h, <<4, 6>>)
NextCopy == AnnotateCopy \/ CopyCall \/ TileLookup
SpecCopy == InitReady /\ [][NextCopy]_vars

\* Tile shapes over every mesh the constructor accepts.
Construct == \E cfg \in MeshConfigs : mesh_tensor_functions(cfg)
AnnotateTile ==
  \E sx \in ShardDims : \E sy \in ShardDims :
    AnnotateLiteral(<<"A">>, FullInfo(<<16, 16>>, "S1"), FullInfo(<<4>>, "S2"),
                    [x |-> sx, y |-> sy], DefaultS2)
TileCall == \E h \in {"A2"} : \E shape \in Shapes : get_tile_shape(h, shape)
NextTile == Construct \/ AnnotateTile \/ TileCall
SpecTile == InitNew /\ [][NextTile]_vars

\* ------------------------------------------------------------ properties
\* The registry by value: what each registered storage identity resolves to.
RegView == [d \in DOMAIN _mesh_tensor_info |-> RegValue(d)]
Registered(h) == data(h) \in DOMAIN _mesh_tensor_info
BlockShapeOf(h) == RegValue(data(h)).block_shape

\* The storage identities of the latest annotate call's mapping.
SnapKeys == {data(ann.snap[i].h) : i \in 1..Len(ann.snap)}

\* Entry i of the latest mapping is the last one with its storage identity.
LastForStorage(i) ==
  \A j \in 1..Len(ann.snap) : j > i => data(ann.snap[j].h) # data(ann.snap[i].h)

\* A schema-valid info value: a mapping holding all three keys.
ValidValue(v) == v.isdict /\ Keys \subseteq v.keys

\* Call c failed with the not-found error naming handle h, copying nothing.
NotFound(c, h) ==
  /\ c.outcome = "raise"
  /\ c.exc = "ValueError"
  /\ c.msg = "not found"
  /\ c.named = h
  /\ ~c.copy_called

IsCopy == last.op = "mesh_tensor_copy"
IsTile == last.op = "get_tile_shape"

\* C1: an annotate call that fails with the schema error leaves the registry
\* as it was before the call (nothing of the old registry is lost and
\* nothing of the rejected mapping becomes visible).
C1_FailedAnnotateKeepsRegistry ==
  [][(last'.op = "annotate_mesh_tensor_info" /\ last'.outcome = "raise")
       => RegView' = RegView]_vars

\* C2: after a successful annotate the registered storage identities are
\* exactly those of that call's mapping, and a lookup (get_tile_shape, or
\* mesh_tensor_copy with a coordinate) of any other handle, one registered
\* before included, fails with the not-found error.
C2_WholesaleReplace ==
  ann.status = "ok" =>
    /\ DOMAIN _mesh_tensor_info = SnapKeys
    /\ (IsTile /\ data(last.buffer) \notin SnapKeys) => NotFound(last, last.buffer)
    /\ (IsCopy /\ last.src_coord.some /\ data(last.src) \notin SnapKeys)
         => NotFound(last, last.src)
    /\ (/\ IsCopy
        /\ last.dst_coord.some /\ data(last.dst) \notin SnapKeys
        /\ (~last.src_coord.some \/ data(last.src) \in SnapKeys))
         => NotFound(last, last.dst)

\* A handle registered by the annotate before the latest successful one and
\* absent from the latest is looked up and not found.
C2_Witness ==
  /\ ann.status = "ok"
  /\ IsTile
  /\ data(last.buffer) \in ann.dropped
  /\ NotFound(last, last.buffer)

\* C3 as stated: after a successful annotate(m), every handle of m resolves
\* to the metadata supplied for it, whatever the caller mutates afterwards.
C3_EveryHandleRoundTrips ==
  ann.status = "ok" =>
    \A i \in 1..Len(ann.snap) :
      /\ data(ann.snap[i].h) \in DOMAIN _mesh_tensor_info
      /\ RegValue(data(ann.snap[i].h)) = ann.snap[i].v

\* C3 (amended): after a successful annotate(m), every handle of m that is
\* the last one in m's iteration order with its storage identity resolves to
\* the metadata supplied for it at the time of the call, and keeps doing so
\* under any later mutation of m, of the info dicts or of their nested
\* sharding dicts, until the next annotate call.
C3_RoundTrip ==
  ann.status = "ok" =>
    \A i \in 1..Len(ann.snap) :
      LastForStorage(i) =>
        /\ data(ann.snap[i].h) \in DOMAIN _mesh_tensor_info
        /\ RegValue(data(ann.snap[i].h)) = ann.snap[i].v

\* After a successful annotate the caller has changed its mapping, the block
\* shape of a registered info dict and that dict's nested sharding dict.
C3_Witness ==
  /\ ann.status = "ok"
  /\ last.op = "annotate_mesh_tensor_info"
  /\ mapping # [i \in 1..Len(ann.snap) |-> ann.snap[i].h]
  /\ \E i \in 1..Len(ann.snap) :
       /\ LastForStorage(i)
       /\ Value(InfoOf(ann.snap[i].h), infos, shards).block_shape
            # ann.snap[i].v.block_shape
       /\ Value(InfoOf(ann.snap[i].h), infos, shards).sharding
            # ann.snap[i].v.sharding
       /\ RegValue(data(ann.snap[i].h)) = ann.snap[i].v

\* Positive integer device counts on both axes.
PositiveMesh(cfg) ==
  /\ cfg.isdict /\ "x" \in cfg.keys /\ "y" \in cfg.keys
  /\ cfg.x.isint /\ cfg.x.n > 0
  /\ cfg.y.isint /\ cfg.y.n > 0

\* The tensor dimension (from 1) a sharding index names in a shape of rank r.
Dim(i, r) == (IF i < 0 THEN i + r ELSE i) + 1
ShardingOf(h) == RegValue(data(h)).sharding
DimX == Dim(ShardingOf(last.buffer).x, Len(last.shape))
DimY == Dim(ShardingOf(last.buffer).y, Len(last.shape))

\* q is the ceiling of a / b, for positive a and b.
IsCeiling(q, a, b) == (q - 1) * b < a /\ a <= q * b

\* C4: on a mesh with positive device counts, for a registered handle whose
\* sharding maps x and y to two different dimensions, get_tile_shape returns
\* the global shape with the x dimension ceil-divided by nx, the y dimension
\* ceil-divided by ny and every other dimension unchanged; the quotient is
\* floor((a + b - 1) / b), exact when b divides a and 1 when a < b; mesh
\* {x: 3, y: 4} and shape (100, 256) give (34, 64).
C4_TileShape ==
  (/\ IsTile /\ Registered(last.buffer) /\ PositiveMesh(_mesh_shape)
   /\ DimX \in 1..Len(last.shape) /\ DimY \in 1..Len(last.shape)
   /\ DimX # DimY)
  => LET nx == _mesh_shape.x.n
         ny == _mesh_shape.y.n
         g == last.shape
         r == last.result
     IN /\ last.outcome = "ok"
        /\ Len(r) = Len(g)
        /\ r[DimX] = (g[DimX] + nx - 1) \div nx
        /\ r[DimY] = (g[DimY] + ny - 1) \div ny
        /\ IsCeiling(r[DimX], g[DimX], nx)
        /\ IsCeiling(r[DimY], g[DimY], ny)
        /\ (g[DimX] % nx = 0 => r[DimX] * nx = g[DimX])
        /\ (g[DimX] < nx => r[DimX] = 1)
        /\ (g[DimY] % ny = 0 => r[DimY] * ny = g[DimY])
        /\ (g[DimY] < ny => r[DimY] = 1)
        /\ \A k \in 1..Len(g) : (k # DimX /\ k # DimY) => r[k] = g[k]
        /\ (nx = 3 /\ ny = 4 /\ g = <<100, 256>> /\ DimX = 1 /\ DimY = 2)
             => r = <<34, 64>>

\* The example: mesh {x: 3, y: 4}, shape (100, 256), sharding {x: 0, y: 1}.
C4_Witness ==
  /\ IsTile /\ last.outcome = "ok"
  /\ _mesh_shape.x = IntV(3) /\ _mesh_shape.y = IntV(4)
  /\ last.shape = <<100, 256>>
  /\ ShardingOf(last.buffer) = [x |-> 0, y |-> 1]
  /\ last.result = <<34, 64>>

\* C5: in mesh_tensor_copy a coordinate whose length differs from that of
\* the recorded block_shape, on either side, makes the call fail without
\* invoking the copy primitive.
C5_LengthMismatchRejected ==
  (/\ IsCopy
   /\ \/ /\ last.src_coord.some /\ Registered(last.src)
         /\ Len(last.src_coord.val) # Len(BlockShapeOf(last.src))
      \/ /\ last.dst_coord.some /\ Registered(last.dst)
         /\ Len(last.dst_coord.val) # Len(BlockShapeOf(last.dst)))
  => (last.outcome = "raise" /\ ~last.copy_called)

\* C6: mesh_tensor_functions fails unless the configuration is a mapping
\* with keys "x" and "y" and positive integer counts, so every mesh that
\* get_tile_shape divides by has nx > 0 and ny > 0.
C6_ConfigValidated ==
  /\ (last.op = "mesh_tensor_functions"
        => (last.outcome = "raise" <=> ~PositiveMesh(last.cfg)))
  /\ (ctx = "ready" => PositiveMesh(_mesh_shape))

\* The view of buffer h sliced at the block offset of coordinate c.
IsSlicedAt(view, h, c, bs) ==
  /\ view.buf = h
  /\ view.sliced
  /\ Len(view.offset) = Len(c)
  /\ \A k \in 1..Len(c) : view.offset[k] = c[k] * bs[k]
IsWhole(view, h) == view.buf = h /\ ~view.sliced

\* C7: each side's view is determined by that side alone.  With a coordinate
\* and a registered block_shape of the same length the primitive gets the
\* buffer sliced at the elementwise product (block shape (16, 16) and
\* coordinate (2, 3) give (32, 48)); without a coordinate it gets the buffer
\* unsliced, no lookup is made for that side and that side raises nothing,
\* registered or not.
C7_Views ==
  IsCopy =>
    /\ last.copy_called <=>
         /\ (last.src_coord.some => Registered(last.src))
         /\ (last.dst_coord.some => Registered(last.dst))
    /\ (last.outcome = "raise") <=> ~last.copy_called
    /\ last.outcome = "raise" =>
         \/ last.named = last.src /\ last.src_coord.some
         \/ last.named = last.dst /\ last.dst_coord.some
    /\ ~last.src_coord.some => "src" \notin last.lookups
    /\ ~last.dst_coord.some => "dst" \notin last.lookups
    /\ (last.copy_called /\ ~last.src_coord.some) => IsWhole(last.copy_src, last.src)
    /\ (last.copy_called /\ ~last.dst_coord.some) => IsWhole(last.copy_dst, last.dst)
    /\ (/\ last.copy_called /\ last.src_coord.some
        /\ Len(last.src_coord.val) = Len(BlockShapeOf(last.src)))
         => IsSlicedAt(last.copy_src, last.src, last.src_coord.val,
                       BlockShapeOf(last.src))
    /\ (/\ last.copy_called /\ last.dst_coord.some
        /\ Len(last.dst_coord.val) = Len(BlockShapeOf(last.dst)))
         => IsSlicedAt(last.copy_dst, last.dst, last.dst_coord.val,
                       BlockShapeOf(last.dst))
    /\ (/\ last.copy_called /\ last.src_coord = Some(<<2, 3>>)
        /\ BlockShapeOf(last.src) = <<16, 16>>)
         => last.copy_src.offset = <<32, 48>>

\* Block shape (16, 16), source coordinate (2, 3), and an unregistered
\* destination without a coordinate.
C7_Witness ==
  /\ IsCopy /\ last.copy_called
  /\ last.src_coord = Some(<<2, 3>>)
  /\ BlockShapeOf(last.src) = <<16, 16>>
  /\ last.copy_src = [buf |-> last.src, sliced |-> TRUE, offset |-> <<32, 48>>]
  /\ ~last.dst_coord.some /\ ~Registered(last.dst)
  /\ last.copy_dst = [buf |-> last.dst, sliced |-> FALSE, offset |-> <<>>]

\* C8: annotate raises the schema error exactly when some info of its
\* mapping is no mapping or lacks one of block_shape, program_id, sharding;
\* every registry entry holds all three keys; an info with block_shape and
\* sharding but no program_id is rejected.
C8_SchemaRejection ==
  /\ ann.status # "none" =>
       /\ (ann.status = "raise") <=>
            \E i \in 1..Len(ann.snap) : ~ValidValue(ann.snap[i].v)
       /\ (\E i \in 1..Len(ann.snap) :
             /\ ann.snap[i].v.isdict
             /\ ann.snap[i].v.keys = {"block_shape", "sharding"})
            => ann.status = "raise"
  /\ (last.op = "annotate_mesh_tensor_info" /\ last.outcome = "raise")
       => (last.exc = "ValueError" /\ ann.status = "raise")
  /\ \A d \in DOMAIN _mesh_tensor_info : ValidValue(RegValue(d))

\* A mapping whose second info lacks only program_id is rejected after its
\* first entry was stored.
C8_Witness ==
  /\ ann.status = "raise"
  /\ Len(ann.snap) = 2
  /\ ValidValue(ann.snap[1].v)
  /\ ann.snap[2].v.isdict
  /\ ann.snap[2].v.keys = {"block_shape", "sharding"}
  /\ DOMAIN _mesh_tensor_info # {}

\* C9: a lookup of an unregistered handle fails with the not-found error:
\* in get_tile_shape; in mesh_tensor_copy naming the source when the source
\* has a coordinate, naming the destination when only the destination side
\* is missing; the source is resolved first, and a failing call does not
\* invoke the copy primitive.
C9_NotFound ==
  /\ (IsTile /\ ~Registered(last.buffer)) => NotFound(last, last.buffer)
  /\ (IsCopy /\ last.src_coord.some /\ ~Registered(last.src))
       => (NotFound(last, last.src) /\ "dst" \notin last.lookups)
  /\ (/\ IsCopy
      /\ last.dst_coord.some /\ ~Registered(last.dst)
      /\ ~(last.src_coord.some /\ ~Registered(last.src)))
       => NotFound(last, last.dst)
  /\ (IsCopy /\ last.outcome = "raise") => ~last.copy_called

\* Both sides have a coordinate and neither is registered: the source is
\* the one named.
C9_Witness ==
  /\ IsCopy
  /\ last.src # last.dst
  /\ last.src_coord.some /\ ~Registered(last.src)
  /\ last.dst_coord.some /\ ~Registered(last.dst)
  /\ NotFound(last, last.src)

\* C10: when the sharding maps both axes to one dimension d, get_tile_shape
\* raises nothing and returns the global shape with dimension d divided
\* twice, first by nx and then the quotient by ny.
C10_SameDimension ==
  (/\ IsTile /\ Registered(last.buffer)
   /\ DimX \in 1..Len(last.shape)
   /\ DimX = DimY)
  => /\ last.outcome = "ok"
     /\ Len(last.result) = Len(last.shape)
     /\ last.result[DimX] =
          (((last.shape[DimX] + _mesh_shape.x.n - 1) \div _mesh_shape.x.n)
             + _mesh_shape.y.n - 1) \div _mesh_shape.y.n
     /\ \A k \in 1..Len(last.shape) : k # DimX => last.result[k] = last.shape[k]

\* The double division of C10 on the meshes whose counts are nonzero integers.
DoubleDivisionOnDivisibleMesh ==
  (/\ ceildiv_ok(_mesh_shape.x) /\ ceildiv_ok(_mesh_shape.y)) => C10_SameDimension

====
